---------------------------- MODULE Spec2Model ----------------------------
(***************************************************************************)
(* Model of sarsen/radiometry.py: the scatter-reduce accumulator           *)
(* sum_weights, the gamma-area provider, the two distribution policies     *)
(* (nearest and bilinear) and the grid-parameter derivation.               *)
(*                                                                         *)
(* Numbers.  The arrays of the program hold floats.  The model computes    *)
(* with exact rationals <<n, d>> (d > 0, lowest terms), so that equalities *)
(* are decided exactly; float rounding is not modelled.  The float NaN     *)
(* ("no value") is the pair <<0, 0>>.                                      *)
(***************************************************************************)
EXTENDS Integers, Sequences, FiniteSets, TLC

VARIABLES
    pc,                 \* position of the call being modelled
    initial_weights,    \* sum_weights: per-sample values
    azimuth_index,      \* sum_weights: per-sample integer azimuth index
    slant_range_index,  \* sum_weights: per-sample integer slant-range index
    multilook,          \* sum_weights: <<>> (None) or <<wa, wr>>
    weights_sum,        \* sum_weights: the returned per-sample values
    chunk_of,           \* map-reduce: the chunk each sample lies in
    chunk_state,        \* map-reduce: "pending" | "mapped" per chunk
    partial,            \* map-reduce: the intermediate results, keyed by the chunks each covers
    acc,                \* map-reduce: the combined result handed to finalize
    flat_sum,           \* map-reduce: the finalized grouped surface
    dem_coords,         \* gamma_weights_*: samples [gamma_area, azimuth_time, slant_range_time]
    grid,               \* gamma_weights_*: time0 / interval / spacing arguments
    corner_weights,     \* gamma_weights_bilinear: per-sample <<w_00, w_01, w_10, w_11>>
    normalized_area,    \* gamma_weights_*: the returned per-sample values
    dem_oriented_area,  \* compute_gamma_area: per-facet oriented area vector
    dem_direction,      \* compute_gamma_area: per-facet look direction vector
    gamma_area,         \* compute_gamma_area: the returned per-facet values
    attrs,              \* azimuth_slant_range_grid: the metadata record
    grouping_area_factor, \* azimuth_slant_range_grid: <<fa, fr>>
    grid_parameters     \* azimuth_slant_range_grid: the returned record, or the error

vars == <<pc, initial_weights, azimuth_index, slant_range_index, multilook,
          weights_sum, chunk_of, chunk_state, partial, acc, flat_sum,
          dem_coords, grid, corner_weights, normalized_area,
          dem_oriented_area, dem_direction, gamma_area,
          attrs, grouping_area_factor, grid_parameters>>

swVars == <<initial_weights, azimuth_index, slant_range_index, multilook, weights_sum>>
mrVars == <<chunk_of, chunk_state, partial, acc, flat_sum>>
gwVars == <<dem_coords, grid, corner_weights, normalized_area>>
gaVars == <<dem_oriented_area, dem_direction, gamma_area>>
grVars == <<attrs, grouping_area_factor, grid_parameters>>

(***************************************************************************)
(* Bounds of the model.                                                    *)
(***************************************************************************)
SampleCounts == {1, 2, 3}   \* sizes of the sample collections
MaxIdx == 2         \* grid indices of sum_weights lie in 0..MaxIdx
MaxWin == 2         \* multilook windows lie in (1..MaxWin) \X (1..MaxWin)

Weights == {1, 2}   \* the values the samples of sum_weights carry

(***************************************************************************)
(* Exact rational arithmetic with NaN.                                     *)
(***************************************************************************)
Abs(x) == IF x < 0 THEN -x ELSE x

RECURSIVE Gcd(_, _)
Gcd(a, b) == IF b = 0 THEN a ELSE Gcd(b, a % b)

NaN == <<0, 0>>
IsNaN(r) == r[2] = 0

\* n / d in lowest terms with a positive denominator (d # 0)
Rat(n, d) ==
    LET g == Gcd(Abs(n), Abs(d))
        s == IF d < 0 THEN -1 ELSE 1
    IN  <<(s * n) \div g, (s * d) \div g>>

FromInt(n) == <<n, 1>>

RAdd(a, b) == IF IsNaN(a) \/ IsNaN(b) THEN NaN
              ELSE Rat(a[1] * b[2] + b[1] * a[2], a[2] * b[2])
RSub(a, b) == IF IsNaN(a) \/ IsNaN(b) THEN NaN
              ELSE Rat(a[1] * b[2] - b[1] * a[2], a[2] * b[2])
RMul(a, b) == IF IsNaN(a) \/ IsNaN(b) THEN NaN
              ELSE Rat(a[1] * b[1], a[2] * b[2])
\* float division: x / 0 is inf or nan, never a finite value; both are "no value" here
RDiv(a, b) == IF IsNaN(a) \/ IsNaN(b) \/ b[1] = 0 THEN NaN
              ELSE Rat(a[1] * b[2], a[2] * b[1])
RAbs(a) == <<Abs(a[1]), a[2]>>
RLeq(a, b) == a[1] * b[2] <= b[1] * a[2]

\* the sum of f[k] over the finite index set K; the empty sum is 0
RECURSIVE RSum(_, _)
RSum(f, K) ==
    IF K = {} THEN FromInt(0)
    ELSE LET k == CHOOSE x \in K : TRUE IN RAdd(f[k], RSum(f, K \ {k}))

\* np.floor, np.ceil and np.round (half to even) of the rational r, as integers
Floor(r) == r[1] \div r[2]
Ceil(r) == -((-r[1]) \div r[2])
Round(r) ==
    LET f == Floor(r)
        twice == 2 * (r[1] - f * r[2])      \* 2 * fractional part * r[2]
    IN  IF twice < r[2] THEN f
        ELSE IF twice > r[2] THEN f + 1
        ELSE IF f % 2 = 0 THEN f ELSE f + 1

(***************************************************************************)
(* sum_weights.                                                            *)
(***************************************************************************)
RECURSIVE SortedSeq(_)
SortedSeq(S) ==
    IF S = {} THEN <<>>
    ELSE LET m == CHOOSE x \in S : \A y \in S : x <= y
         IN  <<m>> \o SortedSeq(S \ {m})

Range(s) == {s[k] : k \in DOMAIN s}

\* flox.xarray.xarray_reduce(geocoded, slant_range_index, azimuth_index, func="sum"):
\* a dense surface over the sorted distinct values of each index; a cell with
\* no sample holds NaN.
xarray_reduce_last(values, rg, az) ==
    LET rgc == SortedSeq(Range(rg))
        azc == SortedSeq(Range(az))
    IN  [ rg |-> rgc, az |-> azc,
          data |-> [i \in DOMAIN rgc |-> [j \in DOMAIN azc |->
              LET K == {k \in DOMAIN values : rg[k] = rgc[i] /\ az[k] = azc[j]}
              IN  IF K = {} THEN NaN
                  ELSE values[CHOOSE k \in K : \A l \in K : l <= k]]] ]
xarray_reduce(values, rg, az) ==
    LET rgc == SortedSeq(Range(rg))
        azc == SortedSeq(Range(az))
    IN  [ rg |-> rgc, az |-> azc,
          data |-> [i \in DOMAIN rgc |-> [j \in DOMAIN azc |->
              LET K == {k \in DOMAIN values : rg[k] = rgc[i] /\ az[k] = azc[j]}
              IN  IF K = {} THEN NaN ELSE RSum(values, K)]] ]

\* min_periods of the rolling window
MinPeriodsOff(wa, wr) == ((wa * wr) \div 2) + 2
MinPeriods(wa, wr) == ((wa * wr) \div 2) + 1

\* positions a centered window of width w covers around position p: the
\* window is padded with w // 2 positions before p and the rest after it
WindowLeading(p, w) == p .. (p + w - 1)
Window(p, w) == (p - (w \div 2)) .. (p - (w \div 2) + w - 1)

\* flat_sum.rolling(azimuth_index=wa, slant_range_index=wr, center=True,
\*                  min_periods=...).mean()
rolling_mean(surface, wa, wr) ==
    [ surface EXCEPT !.data =
        [i \in DOMAIN surface.rg |-> [j \in DOMAIN surface.az |->
            LET cells == {c \in (Window(i, wr) \cap DOMAIN surface.rg)
                                  \X (Window(j, wa) \cap DOMAIN surface.az) :
                             ~IsNaN(surface.data[c[1]][c[2]])}
                at == [c \in cells |-> surface.data[c[1]][c[2]]]
            IN  IF Cardinality(cells) >= MinPeriods(wa, wr)
                THEN RDiv(RSum(at, cells), FromInt(Cardinality(cells)))
                ELSE NaN]] ]

\* position of the coordinate nearest to x
NearestFirst(coords, x) == 1
Nearest(coords, x) ==
    CHOOSE p \in DOMAIN coords :
        \A q \in DOMAIN coords : Abs(coords[p] - x) <= Abs(coords[q] - x)

\* surface.interp(slant_range_index=rg, azimuth_index=az, method="nearest"):
\* one value per query point, in the order of the query points
interp_nearest(surface, rg, az) ==
    [k \in DOMAIN rg |->
        surface.data[Nearest(surface.rg, rg[k])][Nearest(surface.az, az[k])]]

sum_weights(values, az, rg, ml) ==
    LET summed == xarray_reduce(values, rg, az)
        smooth == IF ml # <<>> THEN rolling_mean(summed, ml[1], ml[2]) ELSE summed
    IN  interp_nearest(smooth, rg, az)

(***************************************************************************)
(* Values of the variables a specification does not use.                   *)
(***************************************************************************)
swIdle == /\ initial_weights = <<>> /\ azimuth_index = <<>> /\ slant_range_index = <<>>
          /\ multilook = <<>> /\ weights_sum = <<>>
mrIdle == /\ chunk_of = <<>> /\ chunk_state = <<>> /\ partial = <<>>
          /\ acc = <<>> /\ flat_sum = <<>>
gwIdle == /\ dem_coords = <<>> /\ grid = <<>> /\ corner_weights = <<>>
          /\ normalized_area = <<>>
gaIdle == /\ dem_oriented_area = <<>> /\ dem_direction = <<>> /\ gamma_area = <<>>
grIdle == /\ attrs = <<>> /\ grouping_area_factor = <<>> /\ grid_parameters = <<>>

(***************************************************************************)
(* Specification of sum_weights: any sample collection, any multilook.     *)
(***************************************************************************)
Multilooks == {<<>>} \cup ((1..MaxWin) \X (1..MaxWin))

InitSumWeights ==
    /\ pc = "start"
    /\ \E n \in SampleCounts :
          /\ initial_weights \in [1..n -> {FromInt(v) : v \in Weights}]
          /\ azimuth_index \in [1..n -> 0..MaxIdx]
          /\ slant_range_index \in [1..n -> 0..MaxIdx]
    /\ multilook = <<>>
    /\ weights_sum = <<>>
    /\ mrIdle /\ gwIdle /\ gaIdle /\ grIdle

SumWeights ==
    /\ pc = "start"
    /\ \E ml \in Multilooks :
          /\ multilook' = ml
          /\ weights_sum' = sum_weights(initial_weights, azimuth_index,
                                        slant_range_index, ml)
    /\ pc' = "done"
    /\ UNCHANGED <<initial_weights, azimuth_index, slant_range_index>>
    /\ UNCHANGED <<mrVars, gwVars, gaVars, grVars>>

NextSumWeights == SumWeights

SpecSumWeights == InitSumWeights /\ [][NextSumWeights]_vars

(***************************************************************************)
(* The grouped reduction as flox runs it with method="map-reduce": every   *)
(* chunk of the samples is grouped and summed on its own, the per-chunk    *)
(* results are combined pairwise in any order, and the combined result is  *)
(* laid out over the expected groups.                                      *)
(***************************************************************************)
MaxChunks == 2       \* chunks the samples are split into
MapReduceIdx == 0..1 \* grid indices of the samples of the chunked reduction

PairOf(rg, az, k) == <<rg[k], az[k]>>

\* the blockwise step: group and sum the samples K of one chunk
chunk_reduce(values, rg, az, K) ==
    [p \in {PairOf(rg, az, k) : k \in K} |->
        RSum(values, {k \in K : PairOf(rg, az, k) = p})]

\* the combine step: two intermediate results merged group by group
combine_overwrite(a, b) ==
    [p \in DOMAIN a \cup DOMAIN b |-> IF p \in DOMAIN b THEN b[p] ELSE a[p]]
combine(a, b) ==
    [p \in DOMAIN a \cup DOMAIN b |->
        IF p \in DOMAIN a /\ p \in DOMAIN b THEN RAdd(a[p], b[p])
        ELSE IF p \in DOMAIN a THEN a[p] ELSE b[p]]

\* the finalize step: the dense surface over the expected groups, NaN where
\* no sample fell
finalize(sums, rg, az) ==
    LET rgc == SortedSeq(Range(rg))
        azc == SortedSeq(Range(az))
    IN  [ rg |-> rgc, az |-> azc,
          data |-> [i \in DOMAIN rgc |-> [j \in DOMAIN azc |->
              IF <<rgc[i], azc[j]>> \in DOMAIN sums
              THEN sums[<<rgc[i], azc[j]>>] ELSE NaN]] ]

Chunks == 1..MaxChunks
SamplesOf(B) == {k \in DOMAIN chunk_of : chunk_of[k] \in B}

InitMapReduce ==
    /\ pc = "reduce"
    /\ \E n \in SampleCounts :
          /\ initial_weights \in [1..n -> {FromInt(v) : v \in Weights}]
          /\ azimuth_index \in [1..n -> MapReduceIdx]
          /\ slant_range_index \in [1..n -> MapReduceIdx]
          /\ chunk_of \in [1..n -> Chunks]
    /\ multilook = <<>> /\ weights_sum = <<>>
    /\ chunk_state = [c \in Chunks |-> "pending"]
    /\ partial = [B \in {} |-> <<>>]
    /\ acc = <<>>
    /\ flat_sum = <<>>
    /\ gwIdle /\ gaIdle /\ grIdle

\* a worker groups and sums chunk c
MapChunk(c) ==
    /\ pc = "reduce"
    /\ chunk_state[c] = "pending"
    /\ chunk_state' = [chunk_state EXCEPT ![c] = "mapped"]
    /\ partial' = [B \in DOMAIN partial \cup {{c}} |->
                     IF B = {c}
                     THEN chunk_reduce(initial_weights, slant_range_index,
                                       azimuth_index, SamplesOf({c}))
                     ELSE partial[B]]
    /\ UNCHANGED <<pc, swVars, chunk_of, acc, flat_sum, gwVars, gaVars, grVars>>

\* two intermediate results are combined into one
Combine(A, B) ==
    /\ pc = "reduce"
    /\ A \in DOMAIN partial /\ B \in DOMAIN partial /\ A # B
    /\ partial' = [C \in ((DOMAIN partial) \ {A, B}) \cup {A \cup B} |->
                     IF C = A \cup B THEN combine(partial[A], partial[B])
                     ELSE partial[C]]
    /\ UNCHANGED <<pc, swVars, chunk_of, chunk_state, acc, flat_sum,
                   gwVars, gaVars, grVars>>

\* every chunk is in the one remaining result: lay it out over the groups
Finalize ==
    /\ pc = "reduce"
    /\ DOMAIN partial = {Chunks}
    /\ acc' = partial[Chunks]
    /\ flat_sum' = finalize(partial[Chunks], slant_range_index, azimuth_index)
    /\ pc' = "finalized"
    /\ UNCHANGED <<swVars, chunk_of, chunk_state, partial, gwVars, gaVars, grVars>>

NextMapReduce ==
    \/ \E c \in Chunks : MapChunk(c)
    \/ \E A \in SUBSET Chunks : \E B \in SUBSET Chunks : Combine(A, B)
    \/ Finalize

SpecMapReduce == InitMapReduce /\ [][NextMapReduce]_vars

(***************************************************************************)
(* The distribution policies.  Times are integers in units of ONE_SECOND,  *)
(* so the continuous grid index (time - time0) / interval is a rational.   *)
(***************************************************************************)
ONE_SECOND == 1

MaxTime == 2            \* sample times lie in 0..MaxTime
DemSizes == {1, 2}      \* number of samples of dem_coords
Areas == {1, 2}         \* gamma_area of a sample
Time0s == {0, 1}        \* azimuth_time0, slant_range_time0
Intervals == {1, 2, 3}  \* azimuth_time_interval_s, slant_range_time_interval_s
AzimuthSpacings == {1, 2}   \* azimuth_spacing_m
SlantRangeSpacings == {3}   \* slant_range_spacing_m

\* ((dem_coords.azimuth_time - azimuth_time0) / ONE_SECOND) / azimuth_time_interval_s
cont_azimuth_index(dem, g) ==
    [k \in DOMAIN dem |->
        RDiv(RDiv(FromInt(dem[k].azimuth_time - g.azimuth_time0), FromInt(ONE_SECOND)),
             FromInt(g.azimuth_time_interval_s))]

\* (dem_coords.slant_range_time - slant_range_time0) / slant_range_time_interval_s
cont_slant_range_index(dem, g) ==
    [k \in DOMAIN dem |->
        RDiv(FromInt(dem[k].slant_range_time - g.slant_range_time0),
             FromInt(g.slant_range_time_interval_s))]

\* abs((a_corner - azimuth_index) * (r_corner - slant_range_index))
corner_weight(a_corner, a, r_corner, r) ==
    RAbs(RMul(RSub(FromInt(a_corner), a), RSub(FromInt(r_corner), r)))

\* w_00, w_01, w_10, w_11 of every sample
bilinear_weights_copied(dem, g) ==
    LET a == cont_azimuth_index(dem, g)
        r == cont_slant_range_index(dem, g)
    IN  [k \in DOMAIN dem |->
           << corner_weight(Ceil(a[k]), a[k], Ceil(r[k]), r[k]),
              corner_weight(Ceil(a[k]), a[k], Ceil(r[k]), r[k]),
              corner_weight(Floor(a[k]), a[k], Ceil(r[k]), r[k]),
              corner_weight(Floor(a[k]), a[k], Floor(r[k]), r[k]) >>]
bilinear_weights(dem, g) ==
    LET a == cont_azimuth_index(dem, g)
        r == cont_slant_range_index(dem, g)
    IN  [k \in DOMAIN dem |->
           << corner_weight(Ceil(a[k]), a[k], Ceil(r[k]), r[k]),
              corner_weight(Ceil(a[k]), a[k], Floor(r[k]), r[k]),
              corner_weight(Floor(a[k]), a[k], Ceil(r[k]), r[k]),
              corner_weight(Floor(a[k]), a[k], Floor(r[k]), r[k]) >>]

gamma_weights_bilinear(dem, g) ==
    LET a == cont_azimuth_index(dem, g)
        r == cont_slant_range_index(dem, g)
        slant_range_index_0 == [k \in DOMAIN dem |-> Floor(r[k])]
        slant_range_index_1 == [k \in DOMAIN dem |-> Ceil(r[k])]
        azimuth_index_0 == [k \in DOMAIN dem |-> Floor(a[k])]
        azimuth_index_1 == [k \in DOMAIN dem |-> Ceil(a[k])]
        w == bilinear_weights(dem, g)
        weighted(c) == [k \in DOMAIN dem |-> RMul(FromInt(dem[k].gamma_area), w[k][c])]
        tot_area_00 == sum_weights(weighted(1), azimuth_index_0, slant_range_index_0, <<>>)
        tot_area_01 == sum_weights(weighted(2), azimuth_index_0, slant_range_index_1, <<>>)
        tot_area_10 == sum_weights(weighted(3), azimuth_index_1, slant_range_index_0, <<>>)
        tot_area_11 == sum_weights(weighted(4), azimuth_index_1, slant_range_index_1, <<>>)
    IN  [k \in DOMAIN dem |->
           RDiv(RAdd(RAdd(RAdd(tot_area_00[k], tot_area_01[k]), tot_area_10[k]),
                     tot_area_11[k]),
                FromInt(g.azimuth_spacing_m * g.slant_range_spacing_m))]

gamma_weights_nearest(dem, g) ==
    LET a == cont_azimuth_index(dem, g)
        r == cont_slant_range_index(dem, g)
        az == [k \in DOMAIN dem |-> Round(a[k])]
        rg == [k \in DOMAIN dem |-> Round(r[k])]
        tot_area == sum_weights([k \in DOMAIN dem |-> FromInt(dem[k].gamma_area)],
                                az, rg, <<>>)
    IN  [k \in DOMAIN dem |->
           RDiv(tot_area[k], FromInt(g.azimuth_spacing_m * g.slant_range_spacing_m))]

InitGammaWeights ==
    /\ pc = "start"
    /\ \E n \in DemSizes :
          dem_coords \in [1..n -> [gamma_area : Areas,
                                   azimuth_time : 0..MaxTime,
                                   slant_range_time : 0..MaxTime]]
    /\ grid \in [slant_range_time0 : Time0s, azimuth_time0 : Time0s,
                 slant_range_time_interval_s : Intervals,
                 azimuth_time_interval_s : Intervals,
                 slant_range_spacing_m : SlantRangeSpacings,
                 azimuth_spacing_m : AzimuthSpacings]
    /\ corner_weights = <<>>
    /\ normalized_area = <<>>
    /\ swIdle /\ mrIdle /\ gaIdle /\ grIdle

GammaWeightsBilinear ==
    /\ pc = "start"
    /\ corner_weights' = bilinear_weights(dem_coords, grid)
    /\ normalized_area' = gamma_weights_bilinear(dem_coords, grid)
    /\ pc' = "bilinear"
    /\ UNCHANGED <<dem_coords, grid, swVars, mrVars, gaVars, grVars>>

GammaWeightsNearest ==
    /\ pc = "start"
    /\ normalized_area' = gamma_weights_nearest(dem_coords, grid)
    /\ pc' = "nearest"
    /\ UNCHANGED <<dem_coords, grid, corner_weights, swVars, mrVars, gaVars, grVars>>

NextGammaWeights == GammaWeightsBilinear \/ GammaWeightsNearest

SpecGammaWeights == InitGammaWeights /\ [][NextGammaWeights]_vars

(***************************************************************************)
(* compute_gamma_area.  scene.compute_dem_oriented_area is an external     *)
(* geometry provider: its result, the oriented area vector of every facet, *)
(* is an input here.                                                       *)
(***************************************************************************)
MaxFacets == 1           \* facets of the terrain
Components == {-1, 0, 1} \* components of the area and direction vectors
Axis == 1..3

\* xr.dot(a, b, dims="axis") of two 3-vectors
xr_dot(a, b) == a[1] * b[1] + a[2] * b[2] + a[3] * b[3]

Negated(d) == [i \in Axis |-> -d[i]]

\* x.where(x > 0, 0)
where_unclamped(x) == x
where_positive(x) == IF x > 0 THEN x ELSE 0

compute_gamma_area(area, direction) ==
    [k \in DOMAIN area |-> where_positive(xr_dot(area[k], Negated(direction[k])))]

InitGammaArea ==
    /\ pc = "start"
    /\ \E n \in 1..MaxFacets :
          /\ dem_oriented_area \in [1..n -> [Axis -> Components]]
          /\ dem_direction \in [1..n -> [Axis -> Components]]
    /\ gamma_area = <<>>
    /\ swIdle /\ mrIdle /\ gwIdle /\ grIdle

ComputeGammaArea ==
    /\ pc = "start"
    /\ gamma_area' = compute_gamma_area(dem_oriented_area, dem_direction)
    /\ pc' = "done"
    /\ UNCHANGED <<dem_oriented_area, dem_direction, swVars, mrVars, gwVars, grVars>>

NextGammaArea == ComputeGammaArea

SpecGammaArea == InitGammaArea /\ [][NextGammaArea]_vars

(***************************************************************************)
(* azimuth_slant_range_grid.  attrs is a function from the keys present to *)
(* their values; a lookup of an absent key raises KeyError.  The incidence *)
(* angle is given in units of pi/6, for which the sine is rational.        *)
(***************************************************************************)
SPEED_OF_LIGHT == 299792458

Keys == {"product_type", "range_pixel_spacing", "incidence_angle_mid_swath",
         "azimuth_time_interval", "azimuth_pixel_spacing"}
ProductTypes == {"SLC", "GRD"}
Quantities == {-1, 0, 1, 10}    \* pixel spacings and the azimuth time interval
Angles == {0, 1, 3}             \* 0, pi/6, pi/2
Factors == {0, 1, 3}            \* components of grouping_area_factor

\* np.sin of an angle given in units of pi/6
np_sin(a) ==
    CASE a % 12 = 0 -> FromInt(0)
      [] a % 12 = 1 -> Rat(1, 2)
      [] a % 12 = 3 -> FromInt(1)
      [] a % 12 = 5 -> Rat(1, 2)
      [] a % 12 = 6 -> FromInt(0)
      [] a % 12 = 7 -> Rat(-1, 2)
      [] a % 12 = 9 -> FromInt(-1)
      [] a % 12 = 11 -> Rat(-1, 2)

\* the keys the body looks up, in the order of the lookups
KeysRead(a) ==
    IF "product_type" \notin DOMAIN a THEN {"product_type"}
    ELSE IF a["product_type"] = "SLC"
    THEN Keys
    ELSE Keys \ {"incidence_angle_mid_swath"}

slant_range_spacing_m_of(a, factor) ==
    IF a["product_type"] = "SLC"
    THEN RMul(RMul(FromInt(a["range_pixel_spacing"]),
                   np_sin(a["incidence_angle_mid_swath"])),
              FromInt(factor[2]))
    ELSE FromInt(a["range_pixel_spacing"] * factor[2])

azimuth_slant_range_grid(a, slant_range_time0, azimuth_time0, factor) ==
    LET slant_range_spacing_m == slant_range_spacing_m_of(a, factor)
        slant_range_time_interval_s ==
            RDiv(RMul(slant_range_spacing_m, FromInt(2)), FromInt(SPEED_OF_LIGHT))
    IN  [ slant_range_time0 |-> slant_range_time0,
          slant_range_time_interval_s |-> slant_range_time_interval_s,
          slant_range_spacing_m |-> slant_range_spacing_m,
          azimuth_time0 |-> azimuth_time0,
          azimuth_time_interval_s |-> FromInt(a["azimuth_time_interval"] * factor[1]),
          azimuth_spacing_m |-> FromInt(a["azimuth_pixel_spacing"] * factor[1]) ]

\* attrs with every key, and attrs with one key absent
AttrsSets ==
    LET full == { [k \in Keys |->
                     CASE k = "product_type" -> t
                       [] k = "range_pixel_spacing" -> r
                       [] k = "incidence_angle_mid_swath" -> i
                       [] k = "azimuth_time_interval" -> ti
                       [] k = "azimuth_pixel_spacing" -> s] :
                  t \in ProductTypes, r \in Quantities, i \in Angles,
                  ti \in Quantities, s \in Quantities }
    IN  full \cup { [k \in Keys \ {gone} |-> f[k]] : f \in full, gone \in Keys }

InitGrid ==
    /\ pc = "start"
    /\ attrs \in AttrsSets
    /\ grouping_area_factor \in Factors \X Factors
    /\ grid_parameters = <<>>
    /\ swIdle /\ mrIdle /\ gwIdle /\ gaIdle

\* the call returns the record
GridReturns ==
    /\ pc = "start"
    /\ KeysRead(attrs) \subseteq DOMAIN attrs
    /\ grid_parameters' = azimuth_slant_range_grid(attrs, 0, 0, grouping_area_factor)
    /\ pc' = "returned"
    /\ UNCHANGED <<attrs, grouping_area_factor, swVars, mrVars, gwVars, gaVars>>

\* a lookup of an absent key raises KeyError out of the call
GridRaises ==
    /\ pc = "start"
    /\ ~(KeysRead(attrs) \subseteq DOMAIN attrs)
    /\ grid_parameters' = [error |-> "KeyError"]
    /\ pc' = "raised"
    /\ UNCHANGED <<attrs, grouping_area_factor, swVars, mrVars, gwVars, gaVars>>

NextGrid == GridReturns \/ GridRaises

SpecGrid == InitGrid /\ [][NextGrid]_vars

(***************************************************************************)
(* The claims.                                                             *)
(***************************************************************************)
Samples == DOMAIN initial_weights
SamePair(k, l) == /\ azimuth_index[k] = azimuth_index[l]
                  /\ slant_range_index[k] = slant_range_index[l]
Group(k) == {l \in Samples : SamePair(k, l)}
Total == RSum(initial_weights, Samples)

\* C1: sum_weights without multilook returns one value per input sample, in
\* the input order, and the value of sample k is the sum of the values of the
\* samples with k's (azimuth_index, slant_range_index) pair; a single sample
\* gets its own value back.
C1_GroupSumPerSample ==
    (pc = "done" /\ multilook = <<>>) =>
        /\ DOMAIN weights_sum = Samples
        /\ \A k \in Samples : weights_sum[k] = RSum(initial_weights, Group(k))
        /\ (Len(initial_weights) = 1 => weights_sum = initial_weights)

\* C1 witness: two samples of different values share a cell and each is
\* returned the sum of both, while a third sample, alone in its cell, is
\* returned its own value.
C1_Witness ==
    /\ pc = "done" /\ multilook = <<>>
    /\ \E k, l, m \in Samples :
          /\ k # l /\ SamePair(k, l) /\ ~SamePair(k, m)
          /\ initial_weights[k] # initial_weights[l]
          /\ weights_sum[k] = RAdd(initial_weights[k], initial_weights[l])
          /\ weights_sum[m] = initial_weights[m]
          /\ weights_sum[m] # weights_sum[k]

\* C4: mass conservation of sum_weights without multilook: the outputs taken
\* once per distinct index pair sum to the sum of all inputs, and so do the
\* outputs each divided by the size of its group.
C4_MassConserved ==
    (pc = "done" /\ multilook = <<>>) =>
        LET firsts == {k \in Samples : \A l \in 1..(k - 1) : ~SamePair(k, l)}
            shares == [k \in Samples |->
                          RDiv(weights_sum[k], FromInt(Cardinality(Group(k))))]
        IN  /\ RSum(weights_sum, firsts) = Total
            /\ RSum(shares, Samples) = Total

\* C4 witness: a call without multilook over a collection in which a cell
\* holds more than one sample.
C4_Witness ==
    /\ pc = "done" /\ multilook = <<>>
    /\ \E k \in Samples : Cardinality(Group(k)) > 1
    /\ weights_sum # initial_weights

\* C6: sum_weights with multilook (1, 1) returns exactly what sum_weights
\* without multilook returns.
C6_UnitWindowNoOp ==
    (pc = "done" /\ multilook = <<1, 1>>) =>
        weights_sum = sum_weights(initial_weights, azimuth_index,
                                  slant_range_index, <<>>)

\* C6 witness: a (1, 1) call over a surface with empty cells (two samples
\* that differ on both axes), every sample returned a value.
C6_Witness ==
    /\ pc = "done" /\ multilook = <<1, 1>>
    /\ \E k, l \in Samples : /\ azimuth_index[k] # azimuth_index[l]
                             /\ slant_range_index[k] # slant_range_index[l]
    /\ \A k \in Samples : ~IsNaN(weights_sum[k])

\* position of x among the sorted distinct values of the index sequence s
Rank(s, x) == Cardinality({y \in Range(s) : y <= x})
\* position q lies in the width-w window centered on position p
InCentered(q, p, w) == p - q <= w \div 2 /\ q - p <= (w - 1) - (w \div 2)
\* the populated cells inside the window around sample k's cell
ValidCells(k) ==
    {c \in {<<slant_range_index[l], azimuth_index[l]>> : l \in Samples} :
        /\ InCentered(Rank(slant_range_index, c[1]),
                      Rank(slant_range_index, slant_range_index[k]), multilook[2])
        /\ InCentered(Rank(azimuth_index, c[2]),
                      Rank(azimuth_index, azimuth_index[k]), multilook[1])}

\* C9: with multilook (wa, wr) the value of a sample is the mean of the
\* populated cells of the grouped surface inside the centered wa-by-wr window
\* around the sample's cell (positions outside the surface and empty cells
\* are not counted) when at least wa*wr//2 + 1 cells are populated, and NaN
\* otherwise.
C9_WindowMean ==
    (pc = "done" /\ multilook # <<>>) =>
        \A k \in Samples :
            LET cells == ValidCells(k)
                inside == {l \in Samples :
                              <<slant_range_index[l], azimuth_index[l]>> \in cells}
            IN  weights_sum[k] =
                    IF Cardinality(cells) >= ((multilook[1] * multilook[2]) \div 2) + 1
                    THEN RDiv(RSum(initial_weights, inside),
                              FromInt(Cardinality(cells)))
                    ELSE NaN

\* C9 witness: a window wider than one cell, one sample whose window holds
\* too few populated cells (NaN) and one whose value is a mean over two cells.
C9_Witness ==
    /\ pc = "done" /\ multilook # <<>> /\ multilook # <<1, 1>>
    /\ \E k \in Samples : IsNaN(weights_sum[k])
    /\ \E k \in Samples : /\ ~IsNaN(weights_sum[k])
                          /\ Cardinality(ValidCells(k)) = 2
                          /\ weights_sum[k][2] = 2

C7_GammaAreaClamped ==
    pc = "done" =>
        \A k \in DOMAIN gamma_area :
            LET a == dem_oriented_area[k]
                d == dem_direction[k]
                along == a[1] * d[1] + a[2] * d[2] + a[3] * d[3]
            IN  /\ gamma_area[k] = (IF -along > 0 THEN -along ELSE 0)
                /\ gamma_area[k] >= 0
                /\ (along >= 0 => gamma_area[k] = 0)

\* C7 witness: a facet facing away from the sensor, returned 0.
C7_Witness ==
    /\ pc = "done"
    /\ \E k \in DOMAIN gamma_area :
          /\ xr_dot(dem_oriented_area[k], dem_direction[k]) > 0
          /\ gamma_area[k] = 0

One == FromInt(1)
Zero == FromInt(0)

\* C2: in gamma_weights_bilinear the four corner weights of every sample lie
\* in [0, 1] and sum to 1, also at integer-valued positions.
C2_WeightsSumToOne ==
    pc = "bilinear" =>
        \A k \in DOMAIN corner_weights :
            /\ \A c \in 1..4 : /\ RLeq(Zero, corner_weights[k][c])
                               /\ RLeq(corner_weights[k][c], One)
            /\ RSum(corner_weights[k], 1..4) = One

IsInteger(r) == r[2] = 1
AllInteger ==
    \A k \in DOMAIN dem_coords :
        /\ IsInteger(cont_azimuth_index(dem_coords, grid)[k])
        /\ IsInteger(cont_slant_range_index(dem_coords, grid)[k])
NoneInteger ==
    \A k \in DOMAIN dem_coords :
        /\ ~IsInteger(cont_azimuth_index(dem_coords, grid)[k])
        /\ ~IsInteger(cont_slant_range_index(dem_coords, grid)[k])

\* C3: when every sample's continuous grid index is integer-valued on both
\* axes, gamma_weights_bilinear returns what gamma_weights_nearest returns.
C3_PoliciesAgreeOnIntegers ==
    (pc = "bilinear" /\ AllInteger) =>
        normalized_area = gamma_weights_nearest(dem_coords, grid)

SameUnitCell(k, l) ==
    LET a == cont_azimuth_index(dem_coords, grid)
        r == cont_slant_range_index(dem_coords, grid)
    IN  a[k][1] \div a[k][2] = a[l][1] \div a[l][2]
        /\ r[k][1] \div r[k][2] = r[l][1] \div r[l][2]

\* C10: when no sample's continuous grid index is integer-valued on either
\* axis, gamma_weights_bilinear returns for sample k the sum of gamma_area
\* over the samples in k's unit cell, divided by
\* azimuth_spacing_m * slant_range_spacing_m.
C10_BilinearIsCellSum ==
    (pc = "bilinear" /\ NoneInteger) =>
        \A k \in DOMAIN dem_coords :
            normalized_area[k] =
                RDiv(RSum([l \in DOMAIN dem_coords |-> FromInt(dem_coords[l].gamma_area)],
                          {l \in DOMAIN dem_coords : SameUnitCell(k, l)}),
                     FromInt(grid.azimuth_spacing_m * grid.slant_range_spacing_m))

\* C10 witness: two samples at different non-integer positions of one unit
\* cell, each returned the area of both.
C10_Witness ==
    /\ pc = "bilinear" /\ NoneInteger
    /\ \E k, l \in DOMAIN dem_coords :
          /\ k # l /\ SameUnitCell(k, l)
          /\ dem_coords[k].azimuth_time # dem_coords[l].azimuth_time
          /\ dem_coords[k].slant_range_time # dem_coords[l].slant_range_time
          /\ normalized_area[k] =
                RDiv(FromInt(dem_coords[k].gamma_area + dem_coords[l].gamma_area),
                     FromInt(grid.azimuth_spacing_m * grid.slant_range_spacing_m))

IsPositive(r) == ~IsNaN(r) /\ r[1] > 0

\* C8: azimuth_slant_range_grid raises whenever a required key is missing or
\* a spacing, interval or grouping factor makes a resulting spacing or
\* interval non-positive, so every record it returns has strictly positive
\* slant_range_spacing_m, slant_range_time_interval_s, azimuth_spacing_m and
\* azimuth_time_interval_s.
C8_ReturnedGridPositive ==
    /\ (pc # "start" /\ ~(KeysRead(attrs) \subseteq DOMAIN attrs)) => pc = "raised"
    /\ pc = "returned" =>
          /\ IsPositive(grid_parameters.slant_range_spacing_m)
          /\ IsPositive(grid_parameters.slant_range_time_interval_s)
          /\ IsPositive(grid_parameters.azimuth_spacing_m)
          /\ IsPositive(grid_parameters.azimuth_time_interval_s)

=============================================================================
